---------------------------- MODULE Spec2Model ----------------------------
(***************************************************************************)
(* A model of the "net" socket wrapper (include/net/*.hpp).                *)
(*                                                                         *)
(* Spec models the descriptor life cycle: construction, connect, accept,   *)
(* copy, write and destruction of handles over the descriptor table and    *)
(* the listen queue of the OS.                                             *)
(*                                                                         *)
(* SpecLine and SpecBytes model the line framing of socket::read_line /    *)
(* write_line on one established stream: the worker end writes, the client *)
(* end reads, as in test/tcp_server_test_pos01.cpp. In SpecLine the two    *)
(* ends use write_line and read_line only; in SpecBytes the writer sends   *)
(* arbitrary bytes with write and the reader uses read_line and read.      *)
(***************************************************************************)
EXTENDS Integers, Sequences, FiniteSets, TLC

VARIABLES
  \* The handles of the process.
  life,            \* "unborn", "live" or "dead" (destroyed)
  kind,            \* "client", "server" or "worker"
  fd_,             \* socket::fd_
  client_address,  \* worker::_client_address (sin_addr.s_addr)
  origin,          \* "ctor", "accept" (made by server::accept) or "copy"
  from,            \* the connection an accepted worker was made for
  ready,           \* a connect on the handle has returned without error
  \* The OS.
  fdt,             \* descriptor table of the process
  sock,            \* the sockets the OS has created for the process
  conns,           \* the connections made to the listening port
  backlog,         \* connections waiting to be accepted, oldest first
  \* The stream between the worker end and the client end.
  wire,            \* bytes accepted by ::send, not yet in the reader's queue
  rxq,             \* the reader's kernel receive queue
  peerClosed,      \* the writing end has been closed (FIN follows the data)
  buffer,          \* socket::read_line's static char buffer[BUFFER_SIZE]
  sent,            \* number of bytes ::send has accepted on the stream
  short,           \* some ::send accepted fewer bytes than it was offered
  sentLines,       \* texts of the first two write_line calls on the stream
  reads,           \* number of read_line calls made on the stream (3: more)
  firstAt,         \* write_line calls made before the first read_line
  firstErr,        \* the error the first read_line threw (ErrNone: none)
  plain,           \* the stream is used with write_line / read_line only
  thread,          \* per thread: where its read_line call is, its locals
  inq,             \* per connection: the receive queue the threads read
  \* Observation.
  ret              \* what the step just taken returned (NoCall: no call)

handleVars ==
  <<life, kind, fd_, client_address, origin, from, ready>>

osVars == <<fdt, sock, conns, backlog>>

streamVars ==
  <<wire, rxq, peerClosed, buffer, sent, short, sentLines, reads, firstAt,
    firstErr, plain, thread, inq>>

vars == <<handleVars, osVars, streamVars, ret>>

---------------------------------------------------------------------------
(* Bounds of the model. *)

\* Size of the peek window. The source uses 4096 (socket.hpp:78); the model
\* scales it down so that queues longer than the window are reachable.
WindowBound == 3

\* Number of bytes the writing end sends over the life of a stream that is
\* used with write and read (SpecBytes).
MaxStream == 4

\* Number of bytes the writing end sends over the life of a stream that is
\* used line by line (SpecLine).
MaxLineStream == 5

\* Longest text handed to write_line.
MaxText == 2

\* Longest buffer handed to a raw write, and largest raw read.
MaxRaw == 2

\* Number of handles the process makes.
NumHandles == 3

\* Highest descriptor of the descriptor table.
MaxFd == 3

\* Number of sockets the OS creates for the process.
MaxSockets == 3

\* Number of threads of the process that call read_line.
NumThreads == 2

\* Number of bytes queued on a connection that the threads read.
MaxQueue == 3

\* Number of connections made to the listening port.
MaxConns == 2

---------------------------------------------------------------------------
(* Bytes, strings and addresses. *)

CR == 13

LF == 10

NUL == 0

\* The payload byte of the model: 'a'.
Letters == {97}

\* Bytes of the buffers handed to a raw write: 'a' and the two EOL markers.
Bytes == Letters \cup {CR, LF}

Min(a, b) == IF a < b THEN a ELSE b

\* All sequences over S of length lo..hi.
SeqsOf(S, lo, hi) == UNION {[1..n -> S] : n \in lo..hi}

Texts == SeqsOf(Letters, 0, MaxText)

RawData == SeqsOf(Bytes, 1, MaxRaw)

\* static const size_t BUFFER_SIZE
BUFFER_SIZE == WindowBound

\* Addresses of connecting clients, as the four octets of the address.
Loopback == <<127, 0, 0, 1>>

RemoteAddrs == {<<10, 0, 0, 2>>}

\* The octets of an address as in_addr.s_addr holds them (network byte
\* order, read as an integer of a little-endian host).
s_addr(octets) ==
  octets[1] + 256 * octets[2] + 65536 * octets[3] + 16777216 * octets[4]

\* inet_ntoa: the dotted-decimal text of an in_addr.
inet_ntoa(a) ==
  ToString(a % 256) \o "." \o ToString((a \div 256) % 256) \o "."
    \o ToString((a \div 65536) % 256) \o "." \o ToString(a \div 16777216)

\* The dotted-decimal text of four octets.
Dotted(octets) ==
  ToString(octets[1]) \o "." \o ToString(octets[2]) \o "."
    \o ToString(octets[3]) \o "." \o ToString(octets[4])

\* Names given to connect: one that resolves and one that does not.
Names == {"localhost", "nohost"}

\* Error messages (the part before any errno).
ErrNone == ""

ErrRead == "Error reading from connected host"

ErrLine == "Line not found"

ErrNotConnected == "Not connected"

ErrWrite == "Error writing to connected host"

ErrClose == "Error closing socket"

ErrExists == "Socket already exists."

ErrResolve == "Could not resolve address"

ErrCreate == "Could not create socket"

ErrConnect == "Connection failed"

ErrConfigure == "Could not configure socket"

ErrBind == "Could not bind to socket"

ErrListen == "Could not listen for incoming connections"

ErrAccept == "Could not accept incoming connection"

\* No exception: std::string was built from bytes beyond the static buffer.
Overrun == "read past the end of buffer"

\* The outcome of a library call on handle h: the error thrown (ErrNone:
\* none), the OS calls issued, the count and the bytes returned, for a read
\* the receive queue as the call found it, for a write the caller's argument
\* (before) and the bytes offered to ::send (str), and fd_ and ready of the
\* handle as the call found them.
NoCall ==
  [op |-> "none", h |-> 0, err |-> ErrNone, calls |-> <<>>, n |-> 0,
   str |-> <<>>, before |-> <<>>, fd |-> 0, was |-> FALSE]

Outcome(op, h, err, calls) ==
  [NoCall EXCEPT !.op = op, !.h = h, !.err = err, !.calls = calls,
                 !.fd = fd_[h], !.was = ready[h]]

---------------------------------------------------------------------------
(* The OS calls on an established stream. *)

\* A copy that never reaches the buffer.
StoreNothing(buf, data) == buf

\* Copying data over the start of a buffer, the rest of the buffer is kept.
Store(buf, data) ==
  [i \in 1..Len(buf) |-> IF i <= Len(data) THEN data[i] ELSE buf[i]]

\* A read that never asks for MSG_PEEK.
NoPeek(peek) == FALSE

\* peek ? MSG_PEEK : 0 -- the ::recv keeps the queue as it is.
MsgPeek(peek) == peek

\* ::recv(fd, buffer, length, peek ? MSG_PEEK : 0) on queue q. It returns
\* what is queued, at most length bytes; with MSG_PEEK the queue is kept.
\* fail: the call reports an error (-1).
recv(q, buf, length, peek, fail) ==
  IF fail
  THEN [n |-> -1, buf |-> buf, q |-> q]
  ELSE LET n == Min(length, Len(q))
       IN [n   |-> n,
           buf |-> Store(buf, SubSeq(q, 1, n)),
           q   |-> IF MsgPeek(peek) THEN q ELSE SubSeq(q, n + 1, Len(q))]

---------------------------------------------------------------------------
(* socket::read, socket::read_line *)

\* socket::read
read(q, buf, length, peek, fail) ==
  LET r == recv(q, buf, length, peek, fail)
  IN IF r.n < 0
     THEN [err |-> ErrRead, n |-> 0, buf |-> r.buf, q |-> r.q]
     ELSE [err |-> ErrNone, n |-> r.n, buf |-> r.buf, q |-> r.q]

\* A scan that takes '\n' alone for an EOL marker.
IsEolOnlyLF(c) == c = LF

\* *p == '\r' || *p == '\n'
IsEol(c) == c = CR \/ c = LF

\* The scan loop of read_line: p counts the bytes passed (p - buffer).
RECURSIVE Scan(_, _, _, _)
Scan(buf, read_length, p, found_eol) ==
  IF p < read_length /\ found_eol < 2
  THEN Scan(buf, read_length, p + 1,
            IF IsEol(buf[p + 1]) THEN found_eol + 1 ELSE found_eol)
  ELSE [p |-> p, found_eol |-> found_eol]

\* A consuming read that stops before the second EOL marker.
ConsumeLengthShort(p) == p - 1

\* read(buffer, size_t(p - buffer)): the length of the consuming read.
ConsumeLength(p) == p

\* std::string(buffer, size_t(read_length - 2))
LineString(buf, read_length) == SubSeq(buf, 1, read_length - 2)

\* A read_line that scans whatever the peek returned, also nothing.
HasDataAlways(read_length) == TRUE

\* if(read_length > 0)
HasData(read_length) == read_length > 0

\* socket::read_line on queue q with the static buffer buf. f1, f2: the
\* peeking / the consuming ::recv reports an error.
ReadLine(q, buf, f1, f2) ==
  LET r1 == read(q, buf, BUFFER_SIZE, TRUE, f1)
  IN IF r1.err # ErrNone
     THEN [err |-> r1.err, str |-> <<>>, q |-> q, buf |-> r1.buf,
           calls |-> <<"recv_peek">>]
     ELSE IF HasData(r1.n)
     THEN LET s == Scan(r1.buf, r1.n, 0, 0)
          IN IF s.found_eol < 2
             THEN [err |-> ErrLine, str |-> <<>>, q |-> r1.q, buf |-> r1.buf,
                   calls |-> <<"recv_peek">>]
             ELSE LET r2 == read(r1.q, r1.buf, ConsumeLength(s.p), FALSE, f2)
                  IN IF r2.err # ErrNone
                     THEN [err |-> r2.err, str |-> <<>>, q |-> r2.q,
                           buf |-> r2.buf, calls |-> <<"recv_peek", "recv">>]
                     ELSE [err |-> ErrNone, str |-> LineString(r2.buf, r2.n),
                           q |-> r2.q, buf |-> r2.buf,
                           calls |-> <<"recv_peek", "recv">>]
     ELSE [err |-> ErrNone, str |-> <<>>, q |-> r1.q, buf |-> r1.buf,
           calls |-> <<"recv_peek">>]

\* socket::write on a handle whose descriptor is fd. sockOk: the ::send on
\* fd succeeds; accepted: the byte count it returns then.
Write(fd, sockOk, accepted) ==
  IF fd = 0
  THEN [err |-> ErrNotConnected, calls |-> <<>>, n |-> 0]
  ELSE IF sockOk
  THEN [err |-> ErrNone, calls |-> <<"send">>, n |-> accepted]
  ELSE [err |-> ErrWrite, calls |-> <<"send">>, n |-> 0]

---------------------------------------------------------------------------
(* The OS: descriptor table, sockets, the listening port. *)

Handles == 1..NumHandles

Threads == 1..NumThreads

Fds == 0..MaxFd

Rids == 1..MaxSockets

ConnIds == 1..MaxConns

FreeEntry == [use |-> "free", rid |-> 0]

\* An open descriptor that is no socket (standard input).
FileEntry == [use |-> "file", rid |-> 0]

SockEntry(r) == [use |-> "socket", rid |-> r]

\* reuse: SO_REUSEADDR has been set on the socket; bound: a ::bind on it has
\* succeeded.
NoSock == [st |-> "none", conn |-> 0, reuse |-> FALSE, bound |-> FALSE]

NoConn == [st |-> "none", addr |-> <<0, 0, 0, 0>>, workers |-> 0]

Lowest(S) == CHOOSE x \in S : \A y \in S : x <= y

\* The state of the socket descriptor fd names: "created", "bound",
\* "listening", "connected"; "none" when fd names no socket.
SockState(fd) ==
  IF fd \in Fds /\ fdt[fd].use = "socket" THEN sock[fdt[fd].rid].st ELSE "none"

FreeFds == {fd \in Fds : fdt[fd].use = "free"}

UnusedRids == {r \in Rids : sock[r].st = "none"}

UnusedConns == {c \in ConnIds : conns[c].st = "none"}

Listeners == {r \in Rids : sock[r].st = "listening"}

PortBusy == \E r \in Rids : sock[r].st \in {"bound", "listening"}

\* ::getaddrinfo: 0, or the resolver's error code (EAI_NONAME).
getaddrinfo(name) == IF name = "localhost" THEN 0 ELSE -2

\* ::socket: the lowest free descriptor, or -1.
os_socket(fail) ==
  IF fail \/ FreeFds = {} \/ UnusedRids = {} THEN -1 ELSE Lowest(FreeFds)

\* ::connect of a client is refused: nothing listens, or the queue is full.
Refused == Listeners = {} \/ UnusedConns = {}

\* The step of the server's setup the OS may fail ("none": no step). A bind
\* to a port that is bound already fails.
StepFailures(k) ==
  IF k = "client" THEN {"none"}
  ELSE IF PortBusy THEN {"setsockopt", "bind"}
  ELSE {"none", "setsockopt", "bind", "listen"}

\* ::close(fd) reports an error: fd is not open (EBADF).
os_close_fails(fd) == ~(fd \in Fds /\ fdt[fd].use # "free")

---------------------------------------------------------------------------
(* Construction, connect, accept, copy, write, destruction. *)

Unborn == {h \in Handles : life[h] = "unborn"}

NewHandle == Lowest(Unborn)

\* client() / server(): socket_impl() : socket() : fd_(0)
construct ==
  /\ Unborn # {}
  /\ \E k \in {"client", "server"} :
       /\ life' = [life EXCEPT ![NewHandle] = "live"]
       /\ kind' = [kind EXCEPT ![NewHandle] = k]
       /\ fd_' = [fd_ EXCEPT ![NewHandle] = 0]
       /\ origin' = [origin EXCEPT ![NewHandle] = "ctor"]
       /\ ret' = [NoCall EXCEPT !.op = k, !.h = NewHandle]
  /\ UNCHANGED <<client_address, from, ready, osVars, streamVars>>

\* The value of an OS call that fails, or succeeds.
rc(failed) == IF failed THEN -1 ELSE 0

\* client::do_connect
client_do_connect(refused) ==
  IF rc(refused) < 0
  THEN [err |-> ErrConnect, calls |-> <<"connect">>, st |-> "created",
        reuse |-> FALSE, bound |-> FALSE]
  ELSE [err |-> ErrNone, calls |-> <<"connect">>, st |-> "connected",
        reuse |-> FALSE, bound |-> FALSE]

\* A server set-up that goes on whatever the OS reports.
StepNeverFails(r) == FALSE

\* if(::setsockopt(...) < 0), if(::bind(...) < 0), if(::listen(...) < 0)
StepFailed(r) == r < 0

\* server::do_connect; fail: the step the OS fails. The OS sets the reuse
\* option, binds and listens when the call in question succeeds.
server_do_connect(fail) ==
  LET so == rc(fail = "setsockopt")
      bi == rc(fail = "bind")
      li == rc(fail = "listen")
  IN IF StepFailed(so)
     THEN [err |-> ErrConfigure, calls |-> <<"setsockopt">>,
           st |-> "created", reuse |-> FALSE, bound |-> FALSE]
     ELSE IF StepFailed(bi)
     THEN [err |-> ErrBind, calls |-> <<"setsockopt", "bind">>,
           st |-> "created", reuse |-> so = 0, bound |-> FALSE]
     ELSE [err |-> IF StepFailed(li) THEN ErrListen ELSE ErrNone,
           calls |-> <<"setsockopt", "bind", "listen">>,
           st |-> IF li = 0 THEN "listening"
                  ELSE IF bi = 0 THEN "bound" ELSE "created",
           reuse |-> so = 0, bound |-> bi = 0]

\* static_cast<T*>(this)->do_connect()
do_connect(k, fail) ==
  IF k = "client" THEN client_do_connect(Refused) ELSE server_do_connect(fail)

\* A connect that goes on with whatever ::socket returned.
CreateNeverFails(s) == FALSE

\* if(fd_ < 0) after fd_ = ::socket(...)
CreateFailed(s) == s < 0

\* The outcome of a connect that created no socket.
Stopped(err, calls, fd) ==
  [err |-> err, calls |-> calls, fd |-> fd, st |-> "none", reuse |-> FALSE,
   bound |-> FALSE]

\* socket_impl::connect on handle h: the error thrown, the OS calls made,
\* the value fd_ is left with, and the socket it created (st "none": it
\* created none).
socket_impl_connect(h, name, sockFail, fail) ==
  IF fd_[h] > 0
  THEN Stopped(ErrExists, <<>>, fd_[h])
  ELSE IF getaddrinfo(name) # 0
  THEN Stopped(ErrResolve, <<"getaddrinfo">>, fd_[h])
  ELSE LET s == os_socket(sockFail)
       IN IF CreateFailed(s)
          THEN Stopped(ErrCreate, <<"getaddrinfo", "socket">>, s)
          ELSE LET d == do_connect(kind[h], fail)
               IN [err |-> d.err,
                   calls |-> <<"getaddrinfo", "socket">> \o d.calls,
                   fd |-> s, st |-> d.st, reuse |-> d.reuse,
                   bound |-> d.bound]

\* The choices a connect on handle h depends on: the name when the
\* precondition passes, the failure of ::socket when the name resolves, the
\* failing step of the set-up when a socket is created.
Choices(h, name, sockFail, fail) ==
  /\ fd_[h] > 0 => name = "localhost"
  /\ (fd_[h] > 0 \/ getaddrinfo(name) # 0) => ~sockFail
  /\ (fd_[h] > 0 \/ getaddrinfo(name) # 0 \/ os_socket(sockFail) < 0)
       => fail = CHOOSE f \in StepFailures(kind[h]) : TRUE

connect ==
  \E h \in Handles, name \in Names, sockFail \in BOOLEAN :
    \E fail \in StepFailures(kind[h]) :
      /\ life[h] = "live"
      /\ kind[h] \in {"client", "server"}
      /\ Choices(h, name, sockFail, fail)
      /\ LET c == socket_impl_connect(h, name, sockFail, fail)
             r == Lowest(UnusedRids)
             k == Lowest(UnusedConns)
         IN /\ fd_' = [fd_ EXCEPT ![h] = c.fd]
            /\ ready' = [ready EXCEPT ![h] = @ \/ c.err = ErrNone]
            /\ IF c.st = "none"
               THEN UNCHANGED osVars
               ELSE /\ fdt' = [fdt EXCEPT ![c.fd] = SockEntry(r)]
                    /\ sock' = [sock EXCEPT
                                  ![r] = [st |-> c.st,
                                          conn |-> IF c.st = "connected"
                                                   THEN k ELSE 0,
                                          reuse |-> c.reuse,
                                          bound |-> c.bound]]
                    /\ IF c.st = "connected"
                       THEN /\ conns' = [conns EXCEPT
                                           ![k] = [NoConn EXCEPT
                                                     !.st = "pending",
                                                     !.addr = Loopback]]
                            /\ backlog' = Append(backlog, k)
                       ELSE UNCHANGED <<conns, backlog>>
            /\ ret' = Outcome("connect", h, c.err, c.calls)
      /\ UNCHANGED <<life, kind, client_address, origin, from, streamVars>>

\* A client of another process or host connects to the listening port.
remote_connect ==
  \E a \in RemoteAddrs :
    /\ ~Refused
    /\ conns' = [conns EXCEPT
                   ![Lowest(UnusedConns)] =
                      [NoConn EXCEPT !.st = "pending", !.addr = a]]
    /\ backlog' = Append(backlog, Lowest(UnusedConns))
    /\ ret' = NoCall
    /\ UNCHANGED <<handleVars, fdt, sock, streamVars>>

\* An accept that takes every result of ::accept for a descriptor.
AcceptNeverThrows(s) == FALSE

\* if(s < 0) throw
AcceptThrows(s) == s < 0

\* server::accept. ::accept blocks while the listen queue is empty; it
\* returns -1 on a descriptor that does not listen, or when the OS fails.
accept ==
  \E h \in Handles, fail \in BOOLEAN :
    /\ life[h] = "live"
    /\ kind[h] = "server"
    /\ SockState(fd_[h]) = "listening" => backlog # <<>>
    /\ fail => SockState(fd_[h]) = "listening"
    /\ LET s == IF SockState(fd_[h]) # "listening" THEN -1
                ELSE os_socket(fail)
           c == IF s < 0 THEN 0 ELSE Head(backlog)
           addr == IF s < 0 THEN 0 ELSE s_addr(conns[c].addr)
           w == NewHandle
       IN IF AcceptThrows(s)
          THEN /\ ret' = Outcome("accept", h, ErrAccept, <<"accept">>)
               /\ UNCHANGED <<handleVars, osVars>>
          ELSE \* return worker(s, addr, len): socket(s), _client_address(a)
               /\ Unborn # {}
               /\ life' = [life EXCEPT ![w] = "live"]
               /\ kind' = [kind EXCEPT ![w] = "worker"]
               /\ fd_' = [fd_ EXCEPT ![w] = s]
               /\ client_address' = [client_address EXCEPT ![w] = addr]
               /\ origin' = [origin EXCEPT ![w] = "accept"]
               /\ from' = [from EXCEPT ![w] = c]
               /\ IF s < 0
                  THEN UNCHANGED osVars
                  ELSE /\ fdt' = [fdt EXCEPT
                                    ![s] = SockEntry(Lowest(UnusedRids))]
                       /\ sock' = [sock EXCEPT
                                     ![Lowest(UnusedRids)] =
                                        [NoSock EXCEPT !.st = "connected",
                                                       !.conn = c]]
                       /\ conns' = [conns EXCEPT
                                      ![c].st = "accepted",
                                      ![c].workers = Min(@ + 1, 2)]
                       /\ backlog' = Tail(backlog)
               /\ ret' = [Outcome("accept", h, ErrNone, <<"accept">>)
                            EXCEPT !.n = w]
               /\ UNCHANGED ready
    /\ UNCHANGED streamVars

\* worker::client_ip
client_ip(w) == inet_ntoa(client_address[w])

\* socket(const socket& s) : fd_(s.fd_)
copy ==
  \E h \in Handles :
    /\ life[h] = "live"
    /\ Unborn # {}
    /\ life' = [life EXCEPT ![NewHandle] = "live"]
    /\ kind' = [kind EXCEPT ![NewHandle] = kind[h]]
    /\ fd_' = [fd_ EXCEPT ![NewHandle] = fd_[h]]
    /\ client_address' = [client_address EXCEPT ![NewHandle] = client_address[h]]
    /\ origin' = [origin EXCEPT ![NewHandle] = "copy"]
    /\ ret' = [Outcome("copy", h, ErrNone, <<>>) EXCEPT !.n = NewHandle]
    /\ UNCHANGED <<from, ready, osVars, streamVars>>

\* socket::~socket on handle h: the error thrown, the OS calls made.
socket_destructor(h) ==
  IF fd_[h] > 0
  THEN IF os_close_fails(fd_[h])
       THEN [err |-> ErrClose, calls |-> <<"close">>]
       ELSE [err |-> ErrNone, calls |-> <<"close">>]
  ELSE [err |-> ErrNone, calls |-> <<>>]

\* ~socket runs on an object that holds the descriptor of handle h: what it
\* does to the OS. A ::close that succeeds frees the descriptor and ends the
\* socket it named; the listen queue of a listening socket goes.
Closing(h) ==
  LET d == socket_destructor(h)
      r == fdt[fd_[h]].rid
  IN IF d.calls # <<>> /\ d.err = ErrNone
     THEN /\ fdt' = [fdt EXCEPT ![fd_[h]] = FreeEntry]
          /\ sock' = [sock EXCEPT ![r] = [NoSock EXCEPT !.st = "closed"]]
          /\ IF sock[r].st = "listening"
             THEN /\ backlog' = <<>>
                  /\ conns' = [c \in ConnIds |->
                                 IF conns[c].st = "pending"
                                 THEN [conns[c] EXCEPT !.st = "dropped"]
                                 ELSE conns[c]]
             ELSE UNCHANGED <<conns, backlog>>
     ELSE UNCHANGED osVars

\* Handle h is destroyed: its fields are gone with it.
Destroy(h) ==
  /\ life' = [life EXCEPT ![h] = "dead"]
  /\ kind' = [kind EXCEPT ![h] = "none"]
  /\ fd_' = [fd_ EXCEPT ![h] = 0]
  /\ client_address' = [client_address EXCEPT ![h] = 0]
  /\ origin' = [origin EXCEPT ![h] = "none"]
  /\ from' = [from EXCEPT ![h] = 0]
  /\ ready' = [ready EXCEPT ![h] = FALSE]
  /\ Closing(h)
  /\ ret' = Outcome("~socket", h, socket_destructor(h).err,
                    socket_destructor(h).calls)

destroy ==
  \E h \in Handles :
    /\ life[h] = "live"
    /\ Destroy(h)
    /\ UNCHANGED streamVars

\* Handle h is passed by value: socket(const socket&) makes the argument,
\* ~socket destroys it when the call returns.
by_value ==
  \E h \in Handles :
    /\ life[h] = "live"
    /\ Closing(h)
    /\ ret' = Outcome("by_value", h, socket_destructor(h).err,
                      socket_destructor(h).calls)
    /\ UNCHANGED <<handleVars, streamVars>>

\* write(buffer, 1) on any live handle. A ::send succeeds on a connected
\* socket only, and may fail there too.
write ==
  \E h \in Handles, ok \in BOOLEAN :
    /\ life[h] = "live"
    /\ ok => SockState(fd_[h]) = "connected"
    /\ LET w == Write(fd_[h], ok, 1)
       IN ret' = [Outcome("write", h, w.err, w.calls) EXCEPT !.n = w.n]
    /\ UNCHANGED <<handleVars, osVars, streamVars>>

---------------------------------------------------------------------------
(* The life cycle of handles and descriptors. *)

InitHandles ==
  /\ life = [h \in Handles |-> "unborn"]
  /\ kind = [h \in Handles |-> "none"]
  /\ fd_ = [h \in Handles |-> 0]
  /\ client_address = [h \in Handles |-> 0]
  /\ origin = [h \in Handles |-> "none"]
  /\ from = [h \in Handles |-> 0]
  /\ ready = [h \in Handles |-> FALSE]

\* The process starts with standard input open on descriptor 0, or closed.
InitOS ==
  /\ fdt \in {[fd \in Fds |-> IF fd = 0 THEN e ELSE FreeEntry] :
                e \in {FileEntry, FreeEntry}}
  /\ sock = [r \in Rids |-> NoSock]
  /\ conns = [c \in ConnIds |-> NoConn]
  /\ backlog = <<>>

\* No read_line call is in progress in thread t.
IdleThread ==
  [pc |-> "idle", h |-> 0, read_length |-> 0, p |-> 0, before |-> <<>>,
   alone |-> TRUE, done |-> FALSE, err |-> ErrNone, str |-> <<>>]

InitCalls ==
  /\ wire = <<>>
  /\ rxq = <<>>
  /\ buffer = [i \in 1..BUFFER_SIZE |-> NUL]
  /\ sent = 0
  /\ short = FALSE
  /\ sentLines = <<>>
  /\ reads = 0
  /\ firstAt = 0
  /\ firstErr = ErrNone
  /\ thread = [t \in Threads |-> IdleThread]
  /\ ret = NoCall

InitIdle ==
  /\ InitCalls
  /\ peerClosed = FALSE
  /\ inq = [c \in ConnIds |-> <<>>]

Init == InitHandles /\ InitOS /\ InitIdle /\ plain = FALSE

Next ==
  \/ construct
  \/ connect
  \/ remote_connect
  \/ accept
  \/ copy
  \/ write
  \/ destroy

Spec == Init /\ [][Next]_vars

---------------------------------------------------------------------------
(* A listening server handing out workers. *)

\* The state after s.connect in a process that has standard input open.
Listening ==
  /\ life = [h \in Handles |-> IF h = 1 THEN "live" ELSE "unborn"]
  /\ kind = [h \in Handles |-> IF h = 1 THEN "server" ELSE "none"]
  /\ fd_ = [h \in Handles |-> IF h = 1 THEN 1 ELSE 0]
  /\ client_address = [h \in Handles |-> 0]
  /\ origin = [h \in Handles |-> IF h = 1 THEN "ctor" ELSE "none"]
  /\ from = [h \in Handles |-> 0]
  /\ ready = [h \in Handles |-> h = 1]
  /\ fdt = [fd \in Fds |->
              IF fd = 0 THEN FileEntry
              ELSE IF fd = 1 THEN SockEntry(1) ELSE FreeEntry]
  /\ sock = [r \in Rids |->
               IF r = 1
               THEN [NoSock EXCEPT !.st = "listening", !.reuse = TRUE,
                                   !.bound = TRUE]
               ELSE NoSock]
  /\ conns = [c \in ConnIds |-> NoConn]
  /\ backlog = <<>>

InitServer == Listening /\ InitIdle /\ plain = FALSE

NextServer ==
  \/ remote_connect
  \/ accept
  \/ by_value
  \/ destroy

SpecServer == InitServer /\ [][NextServer]_vars

---------------------------------------------------------------------------
(* An established stream: the worker end writes, the client end reads. *)

\* net::tcp_server s
Server == 1

\* net::tcp_client c
Reader == 2

\* net::worker w = s.accept()
Writer == 3

\* The state after s.connect, c.connect and s.accept, in a process that
\* has standard input open.
Established ==
  /\ life = [h \in Handles |->
               IF h \in {Server, Reader, Writer} THEN "live" ELSE "unborn"]
  /\ kind = [h \in Handles |->
               IF h = Server THEN "server" ELSE IF h = Reader THEN "client"
               ELSE IF h = Writer THEN "worker" ELSE "none"]
  /\ fd_ = [h \in Handles |-> IF h \in {Server, Reader, Writer} THEN h ELSE 0]
  /\ client_address = [h \in Handles |->
                         IF h = Writer THEN s_addr(Loopback) ELSE 0]
  /\ origin = [h \in Handles |->
                 IF h \in {Server, Reader} THEN "ctor"
                 ELSE IF h = Writer THEN "accept" ELSE "none"]
  /\ from = [h \in Handles |-> IF h = Writer THEN 1 ELSE 0]
  /\ ready = [h \in Handles |-> h \in {Server, Reader}]
  /\ fdt = [fd \in Fds |->
              IF fd = 0 THEN FileEntry
              ELSE IF fd \in {Server, Reader, Writer} THEN SockEntry(fd)
              ELSE FreeEntry]
  /\ sock = [r \in Rids |->
               IF r = Server
               THEN [NoSock EXCEPT !.st = "listening", !.reuse = TRUE,
                                   !.bound = TRUE]
               ELSE IF r \in {Reader, Writer}
               THEN [NoSock EXCEPT !.st = "connected", !.conn = 1]
               ELSE NoSock]
  /\ conns = [c \in ConnIds |->
                IF c = 1
                THEN [st |-> "accepted", addr |-> Loopback, workers |-> 1]
                ELSE NoConn]
  /\ backlog = <<>>

\* A blocking ::recv on the reader's descriptor returns: data is queued, or
\* the peer has closed and everything it sent has been delivered.
RecvReturns == rxq # <<>> \/ (peerClosed /\ wire = <<>>)

\* The records of a stream used line by line cover its first two write_line
\* calls and its first two read_line calls.
Logged(log, entry) ==
  IF plain /\ Len(log) < 2 THEN Append(log, entry) ELSE log

\* 1: the first read_line call, 2: the second, 3: a later one.
Counted(n) == IF plain /\ n < 3 THEN n + 1 ELSE n

\* c.read_line()
read_line ==
  /\ RecvReturns
  /\ \E f1 \in BOOLEAN, f2 \in BOOLEAN :
       LET r == ReadLine(rxq, buffer, f1, f2)
       IN /\ Len(r.calls) = 1 => ~f2
          /\ rxq' = r.q
          /\ buffer' = r.buf
          /\ ret' = [Outcome("read_line", Reader, r.err, r.calls)
                       EXCEPT !.n = Len(r.str), !.str = r.str, !.before = rxq]
          /\ firstErr' = IF plain /\ reads = 0 THEN r.err ELSE firstErr
  /\ reads' = Counted(reads)
  /\ firstAt' = IF reads = 0 THEN Len(sentLines) ELSE firstAt
  /\ UNCHANGED <<handleVars, osVars, wire, peerClosed, sent, short,
                 sentLines, plain, thread, inq>>

\* c.read(buf, length) with a buffer of the caller's own
read_raw ==
  /\ RecvReturns
  /\ \E length \in 1..MaxRaw, f \in BOOLEAN :
       LET own == [i \in 1..length |-> NUL]
           r == read(rxq, own, length, FALSE, f)
       IN /\ rxq' = r.q
          /\ ret' = [Outcome("read", Reader, r.err, <<"recv">>)
                       EXCEPT !.n = r.n, !.str = SubSeq(r.buf, 1, r.n),
                              !.before = rxq]
  /\ UNCHANGED <<handleVars, osVars, wire, peerClosed, buffer, sent, short,
                 sentLines, reads, firstAt, firstErr, plain, thread, inq>>

\* The byte counts a ::send of length bytes may accept: all of them, or
\* fewer (a partial send).
SendAccepts(length) ==
  {k \in 0..length :
     /\ (k = 0 => length = 0)
     /\ sent + k <= IF plain THEN MaxLineStream ELSE MaxStream}

\* The worker end, called with arg, sends data with one call of write; the
\* outcome keeps arg, the bytes offered to ::send and the count it returned.
SendData(op, arg, data) ==
  /\ life[Writer] = "live"
  /\ \E k \in SendAccepts(Len(data)) :
       LET w == Write(fd_[Writer], TRUE, k)
       IN /\ wire' = wire \o SubSeq(data, 1, w.n)
          /\ sent' = sent + w.n
          /\ short' = (plain /\ (short \/ w.n < Len(data)))
          /\ ret' = [Outcome(op, Writer, w.err, w.calls)
                      EXCEPT !.n = w.n, !.str = data, !.before = arg]
  /\ UNCHANGED <<handleVars, osVars, rxq, peerClosed, buffer>>

\* std::string buffer = line + "\r\n"
LineBufferNoCR(line) == line \o <<LF>>

LineBuffer(line) == line \o <<CR, LF>>

\* w.write_line(line): write(LineBuffer(line))
write_line ==
  \E line \in Texts :
    /\ SendData("write_line", line, LineBuffer(line))
    /\ sentLines' = Logged(sentLines, line)
    /\ UNCHANGED <<reads, firstAt, firstErr, plain, thread, inq>>

\* w.write(buffer, length) with arbitrary bytes
write_raw ==
  \E data \in RawData :
    /\ SendData("write", data, data)
    /\ UNCHANGED <<sentLines, reads, firstAt, firstErr, plain, thread, inq>>

\* The worker goes out of scope: ~socket closes its descriptor.
close_writer ==
  /\ life[Writer] = "live"
  /\ Destroy(Writer)
  /\ peerClosed' = TRUE
  /\ UNCHANGED <<wire, rxq, buffer, sent, short, sentLines, reads, firstAt,
                 firstErr, plain, thread, inq>>

\* The stream delivers the next k bytes in flight to the reader's queue.
deliver ==
  \E k \in 1..Len(wire) :
    /\ rxq' = rxq \o SubSeq(wire, 1, k)
    /\ wire' = SubSeq(wire, k + 1, Len(wire))
    /\ ret' = NoCall
    /\ UNCHANGED <<handleVars, osVars, peerClosed, buffer, sent, short,
                   sentLines, reads, firstAt, firstErr, plain, thread, inq>>

\* A stream used line by line: write_line on one end, read_line on the other.
InitLine == Established /\ InitIdle /\ plain = TRUE

NextLine ==
  \/ write_line
  \/ close_writer
  \/ deliver
  \/ read_line

SpecLine == InitLine /\ [][NextLine]_vars

\* A stream carrying arbitrary bytes.
InitBytes == Established /\ InitIdle /\ plain = FALSE

NextBytes ==
  \/ write_raw
  \/ write_line
  \/ close_writer
  \/ deliver
  \/ read_line
  \/ read_raw

SpecBytes == InitBytes /\ [][NextBytes]_vars

---------------------------------------------------------------------------
(* Threads of one process calling read_line: the steps of a call. *)

Remote == CHOOSE a \in RemoteAddrs : TRUE

\* A server that has accepted two connections: worker 2 on connection 1,
\* worker 3 on connection 2.
Serving ==
  /\ life = [h \in Handles |-> "live"]
  /\ kind = [h \in Handles |-> IF h = 1 THEN "server" ELSE "worker"]
  /\ fd_ = [h \in Handles |-> h]
  /\ client_address = [h \in Handles |->
                         IF h = 1 THEN 0 ELSE s_addr(Remote)]
  /\ origin = [h \in Handles |-> IF h = 1 THEN "ctor" ELSE "accept"]
  /\ from = [h \in Handles |-> h - 1]
  /\ ready = [h \in Handles |-> h = 1]
  /\ fdt = [fd \in Fds |-> IF fd = 0 THEN FileEntry ELSE SockEntry(fd)]
  /\ sock = [r \in Rids |->
               IF r = 1
               THEN [NoSock EXCEPT !.st = "listening", !.reuse = TRUE,
                                   !.bound = TRUE]
               ELSE [NoSock EXCEPT !.st = "connected", !.conn = r - 1]]
  /\ conns = [c \in ConnIds |->
                [st |-> "accepted", addr |-> Remote, workers |-> 1]]
  /\ backlog = <<>>

\* The payload byte that the peer of connection c sends: 'a', 'b'.
Letter(c) == 96 + c

\* What the peer of connection c may have sent.
Sendable(c) == SeqsOf({Letter(c), CR, LF}, 0, MaxQueue)

\* The connection of the socket that handle h holds.
ConnOf(h) == sock[fdt[fd_[h]].rid].conn

\* The peers have sent what they had to send and closed: every byte is
\* queued, and a ::recv on an empty queue returns 0.
InitThreads ==
  /\ Serving
  /\ InitCalls
  /\ peerClosed = TRUE
  /\ inq \in [ConnIds -> UNION {Sendable(c) : c \in ConnIds}]
  /\ \A c \in ConnIds : inq[c] \in Sendable(c)
  /\ plain = FALSE

\* Thread t takes a step that leaves its call in state new; every call of
\* another thread that is in progress has not run alone.
Step(t, new) ==
  thread' = [u \in Threads |->
               IF u = t THEN new
               ELSE IF thread[u].pc # "idle"
               THEN [thread[u] EXCEPT !.alone = FALSE]
               ELSE thread[u]]

\* The call of a thread in state s ends: err is thrown or str is returned.
Ended(s, err, str) ==
  [IdleThread EXCEPT !.h = s.h, !.before = s.before, !.alone = s.alone,
                     !.done = TRUE, !.err = err, !.str = str]

\* No thread of the process has run into undefined behaviour.
Running == \A t \in Threads : thread[t].pc # "undefined"

\* unsigned read_length = this->read(buffer, BUFFER_SIZE, true);
\* if(read_length > 0) ... else return std::string()
read_line_peek ==
  \E t \in Threads, h \in Handles :
    /\ Running
    /\ thread[t].pc = "idle"
    /\ kind[h] = "worker"
    /\ LET r == read(inq[ConnOf(h)], buffer, BUFFER_SIZE, TRUE, FALSE)
           s == [IdleThread EXCEPT !.h = h, !.before = inq[ConnOf(h)]]
       IN /\ buffer' = r.buf
          /\ IF HasData(r.n)
             THEN Step(t, [s EXCEPT !.pc = "scan", !.read_length = r.n])
             ELSE Step(t, Ended(s, ErrNone, <<>>))
    /\ ret' = NoCall
    /\ UNCHANGED <<handleVars, osVars, wire, rxq, peerClosed, sent, short,
                   sentLines, reads, firstAt, firstErr, plain, inq>>

\* The while loop over the static buffer, and the throw that follows it.
read_line_scan ==
  \E t \in Threads :
    /\ Running
    /\ thread[t].pc = "scan"
    /\ LET s == Scan(buffer, thread[t].read_length, 0, 0)
       IN IF s.found_eol < 2
          THEN Step(t, Ended(thread[t], ErrLine, <<>>))
          ELSE Step(t, [thread[t] EXCEPT !.pc = "consume", !.p = s.p])
    /\ ret' = NoCall
    /\ UNCHANGED <<handleVars, osVars, wire, rxq, peerClosed, buffer, sent,
                   short, sentLines, reads, firstAt, firstErr, plain, inq>>

\* read_length = this->read(buffer, size_t(p - buffer));
read_line_consume ==
  \E t \in Threads :
    /\ Running
    /\ thread[t].pc = "consume"
    /\ LET c == ConnOf(thread[t].h)
           r == read(inq[c], buffer, ConsumeLength(thread[t].p), FALSE, FALSE)
       IN /\ buffer' = r.buf
          /\ inq' = [inq EXCEPT ![c] = r.q]
          /\ Step(t, [thread[t] EXCEPT !.pc = "return", !.read_length = r.n])
    /\ ret' = NoCall
    /\ UNCHANGED <<handleVars, osVars, wire, rxq, peerClosed, sent, short,
                   sentLines, reads, firstAt, firstErr, plain>>

\* The range of the unsigned read_length. The source's is 2^32, beyond the
\* integers of the checker; the model keeps 16 bits, which like 32 bits
\* wraps a negative difference to a value far larger than the buffer.
UnsignedRange == 65536

\* size_t(read_length - 2), read_length being unsigned
StringLength(read_length) == (read_length - 2) % UnsignedRange

\* return std::string(buffer, size_t(read_length - 2)); a length beyond the
\* static buffer makes the constructor read past its end, which is
\* undefined: the thread is lost, or a string that starts with the buffer
\* comes back.
read_line_return ==
  \E t \in Threads, lost \in BOOLEAN :
    /\ Running
    /\ thread[t].pc = "return"
    /\ IF StringLength(thread[t].read_length) <= BUFFER_SIZE
       THEN /\ ~lost
            /\ Step(t, Ended(thread[t], ErrNone,
                             LineString(buffer, thread[t].read_length)))
       ELSE IF lost
       THEN Step(t, [thread[t] EXCEPT !.pc = "undefined"])
       ELSE Step(t, Ended(thread[t], Overrun, buffer))
    /\ ret' = NoCall
    /\ UNCHANGED <<handleVars, osVars, wire, rxq, peerClosed, buffer, sent,
                   short, sentLines, reads, firstAt, firstErr, plain, inq>>

NextThreads ==
  \/ read_line_peek
  \/ read_line_scan
  \/ read_line_consume
  \/ read_line_return

SpecThreads == InitThreads /\ [][NextThreads]_vars

---------------------------------------------------------------------------
(* Properties of the line framing. *)

Markers == {CR, LF}

\* The bytes a peek of the queue q sees.
Window(q) == SubSeq(q, 1, Min(BUFFER_SIZE, Len(q)))

\* The positions of the EOL markers of q, and the first and second of them.
MarkerPositions(q) == {i \in 1..Len(q) : q[i] \in Markers}

FirstMarker(q) ==
  CHOOSE i \in MarkerPositions(q) : \A j \in MarkerPositions(q) : i <= j

SecondMarker(q) ==
  CHOOSE i \in MarkerPositions(q) :
    Cardinality({j \in MarkerPositions(q) : j < i}) = 1

HasLine(q) == Cardinality(MarkerPositions(Window(q))) >= 2

\* The last step was a read_line whose ::recv calls reported no error.
ReadLineDone == ret.op = "read_line" /\ ret.err # ErrRead

\* The last step was the k-th read_line of a stream used line by line, on
\* which every send so far has accepted all the bytes it was offered.
NthReadLine(k) == plain /\ ReadLineDone /\ reads = k /\ ~short

Fits(text) == Len(text) + 2 <= BUFFER_SIZE

\* C1: after a write_line(X) with X free of EOL bytes and Len(X) + 2 within
\* the peek window, the first read_line on the peer end returns exactly X,
\* whatever part of the line has been delivered when it is called.
C1_RoundTrip ==
  (NthReadLine(1) /\ firstAt = 1 /\ Fits(sentLines[1]))
    => (ret.err = ErrNone /\ ret.str = sentLines[1])

\* C2: after write_line(X) and write_line(Y) made before the peer reads
\* anything, the first read_line returns X and the second returns Y.
C2_Ordering ==
  /\ (NthReadLine(1) /\ firstAt = 2 /\ Fits(sentLines[1]))
       => (ret.err = ErrNone /\ ret.str = sentLines[1])
  /\ (NthReadLine(2) /\ firstAt = 2 /\ Fits(sentLines[1])
         /\ Fits(sentLines[2]))
       => (ret.err = ErrNone /\ ret.str = sentLines[2])

\* C3: when two EOL markers lie in the peeked window, read_line returns the
\* bytes before the first marker, so its result holds no EOL marker.
C3_UpToFirstMarker ==
  (ReadLineDone /\ HasLine(ret.before))
    => /\ ret.err = ErrNone
       /\ ret.str = SubSeq(ret.before, 1, FirstMarker(ret.before) - 1)
       /\ \A i \in 1..Len(ret.str) : ret.str[i] \notin Markers

\* C4: a read_line that returns removes from the receive queue the prefix
\* ending with the second EOL marker of the window, and nothing else: what
\* followed that marker is still queued, in order. A read_line that peeked
\* no byte removes nothing.
C4_ConsumesLineOnly ==
  (ret.op = "read_line" /\ ret.err = ErrNone)
    => IF ret.before = <<>>
       THEN rxq = <<>>
       ELSE /\ HasLine(ret.before)
            /\ rxq = SubSeq(ret.before, SecondMarker(ret.before) + 1,
                            Len(ret.before))

\* A read_line returned a line and left bytes behind it in the queue.
C4_Witness ==
  /\ ret.op = "read_line" /\ ret.err = ErrNone
  /\ Len(ret.calls) = 2
  /\ rxq # <<>>

\* The peeking ::recv of the last read_line reported no error.
PeekDone == ~(ret.err = ErrRead /\ Len(ret.calls) = 1)

\* C5: read_line throws "Line not found" exactly when the window it peeked
\* is not empty and holds fewer than two EOL markers.
C5_LineNotFound ==
  ret.op = "read_line"
    => (ret.err = ErrLine
          <=> /\ PeekDone
              /\ ret.before # <<>>
              /\ ~HasLine(ret.before))

\* "Line not found" although the queue holds two EOL markers: the second
\* one lies beyond the peek window.
C5_Witness ==
  /\ ret.op = "read_line" /\ ret.err = ErrLine
  /\ Cardinality(MarkerPositions(ret.before)) >= 2

\* C11: a read_line whose peek returns 0 bytes (nothing queued, the peer has
\* closed) returns the empty string, throws nothing and issues no consuming
\* read.
C11_EmptyPeek ==
  (ret.op = "read_line" /\ PeekDone /\ ret.before = <<>>)
    => /\ ret.err = ErrNone
       /\ ret.str = <<>>
       /\ ret.calls = <<"recv_peek">>
       /\ rxq = <<>>

\* read_line has returned on a stream the peer closed after everything it
\* sent was read.
C11_Witness ==
  /\ ret.op = "read_line" /\ ret.err = ErrNone
  /\ ret.before = <<>>
  /\ peerClosed /\ sent > 0

---------------------------------------------------------------------------
(* Properties of the life cycle of handles and descriptors. *)

\* C6: connect on a handle that completed a successful connect before fails
\* with "Socket already exists.", without any OS call (no name resolution,
\* no new descriptor), and the handle keeps the descriptor it had.
C6_ConnectTwice ==
  (ret.op = "connect" /\ ret.was)
    => /\ ret.err = ErrExists
       /\ ret.calls = <<>>
       /\ fd_[ret.h] = ret.fd

\* C7: write on a handle that no connect has succeeded on and that holds no
\* valid descriptor, either 0 (never connected) or the -1 a failed
\* descriptor creation left, fails with "Not connected" and issues no send
\* call.
C7_NotConnected ==
  (ret.op = "write" /\ ~ret.was /\ ret.fd \in {-1, 0})
    => /\ ret.err = ErrNotConnected
       /\ ret.calls = <<>>

\* Live handle h holds the open socket descriptor fd (a value its
\* destructor closes).
Holds(h, fd) ==
  life[h] = "live" /\ fd_[h] = fd /\ fd > 0 /\ fdt[fd].use = "socket"

\* C8: at most one live handle holds a given open descriptor, no descriptor
\* is closed twice (no close of a descriptor that is closed already), and
\* none is closed while another live handle still holds the same value.
C8_ExclusiveOwnership ==
  /\ \A h1 \in Handles, h2 \in Handles, fd \in Fds :
       (Holds(h1, fd) /\ Holds(h2, fd)) => h1 = h2
  /\ ret.op = "~socket" => ret.err # ErrClose
  /\ (ret.op = "~socket" /\ ret.calls # <<>>)
       => \A h \in Handles : life[h] = "live" => fd_[h] # ret.fd

\* C9: a handle whose connect returned without error treats its descriptor
\* as valid, whatever its value: write does not report "Not connected",
\* another connect reports "Socket already exists.", and the destructor
\* closes the descriptor.
C9_ValidAfterConnect ==
  ret.was
    => /\ ret.op = "write" => ret.err # ErrNotConnected
       /\ ret.op = "connect" => ret.err = ErrExists
       /\ ret.op = "~socket" => ret.calls = <<"close">>

\* The live workers accept has returned.
Accepted == {w \in Handles : origin[w] = "accept"}

\* C10: every worker accept returned stands for one client connection that
\* was established before, no connection has been given to two workers, and
\* client_ip of the worker is the address of that client.
C10_AcceptAfterConnect ==
  /\ \A w \in Accepted :
       /\ from[w] \in ConnIds
       /\ conns[from[w]].st = "accepted"
       /\ client_ip(w) = Dotted(conns[from[w]].addr)
       /\ \A v \in Accepted : from[v] = from[w] => v = w
  /\ \A c \in ConnIds :
       /\ conns[c].workers <= 1
       /\ conns[c].workers = 1 => conns[c].st = "accepted"

\* accept has just returned the worker of the loopback client that
\* connected to the listening server.
C10_Witness ==
  /\ ret.op = "accept" /\ ret.err = ErrNone
  /\ ret.n \in Accepted
  /\ conns[from[ret.n]].addr = Loopback

\* s is a prefix of t.
IsPrefix(s, t) == Len(s) <= Len(t) /\ s = SubSeq(t, 1, Len(s))

\* The OS calls of a whole connect on a handle of kind k, in order.
ConnectOrder(k) ==
  <<"getaddrinfo", "socket">>
    \o (IF k = "client" THEN <<"connect">>
        ELSE <<"setsockopt", "bind", "listen">>)

\* What the connect just made has called and thrown.
C12_Steps ==
  ret.op = "connect"
    => /\ IsPrefix(ret.calls, ConnectOrder(kind[ret.h]))
       /\ ret.err = ErrExists <=> ret.calls = <<>>
       /\ ret.err = ErrResolve <=> ret.calls = <<"getaddrinfo">>
       /\ ret.err = ErrResolve => fd_[ret.h] = ret.fd
       /\ ret.err = ErrCreate <=> (Len(ret.calls) >= 2 /\ fd_[ret.h] < 0)
       /\ ret.err = ErrCreate => Len(ret.calls) = 2
       /\ ret.err = ErrNone
            => Len(ret.calls) = Len(ConnectOrder(kind[ret.h]))

\* A connect that stops before the finishing step leaves the descriptor
\* table and the sockets as they were; one that stops at the resolution
\* leaves fd_ as it was, too.
C12_Frame ==
  /\ (ret'.op = "connect" /\ ret'.err \in {ErrExists, ErrResolve, ErrCreate})
       => (fdt' = fdt /\ sock' = sock)
  /\ (ret'.op = "connect" /\ ret'.err \in {ErrExists, ErrResolve})
       => fd_' = fd_

C13_ServerSetup ==
  /\ \A r \in Rids :
       /\ sock[r].st = "listening" => sock[r].bound
       /\ sock[r].bound => sock[r].reuse
  /\ (ret.op = "connect" /\ kind[ret.h] = "server" /\ Len(ret.calls) > 2)
       => LET steps == SubSeq(ret.calls, 3, Len(ret.calls))
          IN /\ IsPrefix(steps, <<"setsockopt", "bind", "listen">>)
             /\ ret.err = ErrConfigure <=> Len(steps) = 1
             /\ ret.err = ErrBind <=> Len(steps) = 2
             /\ ret.err \in {ErrListen, ErrNone} <=> Len(steps) = 3
             /\ ret.err = ErrNone <=> SockState(fd_[ret.h]) = "listening"

\* The bind of a server has failed: the port was bound already.
C13_Witness ==
  /\ ret.op = "connect" /\ ret.err = ErrBind
  /\ PortBusy
  /\ SockState(fd_[ret.h]) = "created"

\* C14: accept leaves the server as it was, listening on the descriptor it
\* had, and every worker it returns holds a descriptor that differs from
\* the server's and from that of every other live worker.
C14_AcceptFrame ==
  ret.op = "accept"
    => /\ fd_[ret.h] = ret.fd
       /\ ready[ret.h] = ret.was
       /\ ret.err = ErrNone
            => /\ SockState(fd_[ret.h]) = "listening"
               /\ fd_[ret.n] # fd_[ret.h]
               /\ \A v \in Handles \ {ret.n} :
                    (life[v] = "live" /\ kind[v] = "worker")
                      => fd_[v] # fd_[ret.n]

\* A connect whose outcome is o entered the resolving step.
Resolving(o) == o.op = "connect" /\ o.calls # <<>>

\* A connect whose outcome is o assigned fd_ from ::socket.
Assigning(o) == o.op = "connect" /\ Len(o.calls) >= 2

\* C15: over the connect calls on one handle the resolving step is entered
\* at most once and fd_ is assigned from ::socket at most once; no connect
\* that did either is followed by a connect on the same handle that does
\* it again.
C15_ConnectOnce ==
  [][/\ ~(Resolving(ret) /\ Resolving(ret') /\ ret'.h = ret.h)
     /\ ~(Assigning(ret) /\ Assigning(ret') /\ ret'.h = ret.h)]_vars

Writes == {"write", "write_line"}

\* What a write that returned normally shows: one ::send, of the argument
\* for write and of the argument followed by CR LF for write_line, and never
\* more bytes counted than offered.
C16_Sent ==
  (ret.op \in Writes /\ ret.err = ErrNone)
    => /\ ret.calls = <<"send">>
       /\ ret.n <= Len(ret.str)
       /\ ret.op = "write" => ret.str = ret.before
       /\ ret.op = "write_line"
            => /\ Len(ret.str) = Len(ret.before) + 2
               /\ SubSeq(ret.str, 1, Len(ret.before)) = ret.before
               /\ ret.str[Len(ret.str) - 1] = CR
               /\ ret.str[Len(ret.str)] = LF

\* A write puts on the stream the bytes its one ::send accepted, the first
\* ret.n of those offered, and nothing more.
C16_Step ==
  ret'.op \in Writes
    => /\ wire' = wire \o SubSeq(ret'.str, 1, ret'.n)
       /\ sent' = sent + ret'.n
       /\ rxq' = rxq

\* C16: write and write_line issue exactly one send and return its count;
\* write_line(text) offers text followed by CR LF; when the send accepts
\* fewer bytes the call returns the smaller count and the rest is not sent.
C16_OneSend == []C16_Sent /\ [][C16_Step]_vars

\* A write_line whose send accepted only part of the line.
C16_Witness ==
  /\ ret.op = "write_line"
  /\ ret.err = ErrNone
  /\ ret.before # <<>>
  /\ 0 < ret.n
  /\ ret.n < Len(ret.str)

\* The last read_line removed nothing from the receive queue.
Untouched == rxq = ret.before

\* The last step was the second read_line of a stream used line by line;
\* the first one, made after the first write_line, threw "Line not found",
\* and by now the whole first line is queued.
RestArrived ==
  /\ NthReadLine(2)
  /\ firstAt >= 1
  /\ firstErr = ErrLine
  /\ Len(ret.before) >= Len(sentLines[1]) + 2

\* C18 as it is worded: a read_line that throws "Line not found" or returns
\* the empty string removes no byte from the receive queue, and a read_line
\* made after the rest of a line has arrived returns the line.
C18_NothingRemoved ==
  /\ (ret.op = "read_line"
        /\ (ret.err = ErrLine \/ (ret.err = ErrNone /\ ret.str = <<>>)))
       => Untouched
  /\ RestArrived => (ret.err = ErrNone /\ ret.str = sentLines[1])

\* C18: a read_line that throws "Line not found", or returns the empty string
\* because its peek returned 0 bytes, issues the peek only and removes no
\* byte from the receive queue; when the first read_line saw a piece of a
\* line that fits the window and failed, a read_line made after the rest
\* has arrived returns the complete line.
C18_FailedReadKeepsQueue ==
  /\ (ret.op = "read_line"
        /\ (ret.err = ErrLine \/ (ret.err = ErrNone /\ ret.before = <<>>)))
       => (Untouched /\ ret.calls = <<"recv_peek">>)
  /\ (RestArrived /\ Fits(sentLines[1]))
       => (ret.err = ErrNone /\ ret.str = sentLines[1])

\* The retry after "Line not found" returned the line, which is not empty.
C18_Witness ==
  /\ RestArrived
  /\ Fits(sentLines[1])
  /\ sentLines[1] # <<>>
  /\ ret.str = sentLines[1]

\* A connect whose outcome is o failed in its finishing step.
FinishFailed(o) ==
  /\ o.op = "connect"
  /\ o.err \in {ErrConnect, ErrConfigure, ErrBind, ErrListen}

\* After a connect that failed in its finishing step the handle holds the
\* socket that the connect created.
C19_Kept ==
  FinishFailed(ret)
    => SockState(fd_[ret.h]) \in {"created", "bound"}

\* What follows on the same handle: a connect is turned away at once, the
\* destructor closes the descriptor.
C19_Later ==
  (FinishFailed(ret) /\ ret'.h = ret.h)
    => /\ ret'.op = "connect"
            => (ret'.err = ErrExists /\ ret'.calls = <<>> /\ fd_' = fd_)
       /\ ret'.op = "~socket"
            => (ret'.err = ErrNone /\ ret'.calls = <<"close">>)

\* C19: a connect that fails in the finishing step leaves the handle with
\* the descriptor it created; a later connect on the handle fails with
\* "Socket already exists." and issues no call, and destroying the handle
\* closes the descriptor once.
C19_FailedConnectKeeps == []C19_Kept /\ [][C19_Later]_vars

\* The call that thread t has completed ran on connection c.
CallOn(t, c) == thread[t].done /\ ConnOf(thread[t].h) = c

\* What a read_line that finds q queued returns when nothing else touches
\* the static buffer or the queue during the call.
LineOf(q) ==
  IF q # <<>> /\ HasLine(q)
  THEN SubSeq(q, 1, SecondMarker(Window(q)) - 2)
  ELSE <<>>

\* C17: the scratch buffer of read_line is one buffer for all handles. A
\* call during which no other thread took a step returns the line of its
\* own connection (or throws "Line not found" when the window holds none);
\* a call interleaved with a call on another handle need not: the witness
\* is a call that returned a byte its connection never carried.
C17_SharedBuffer ==
  \A t \in Threads :
    (thread[t].done /\ thread[t].alone)
      => /\ thread[t].str = LineOf(thread[t].before)
         /\ thread[t].err = ErrLine
              <=> (thread[t].before # <<>> /\ ~HasLine(thread[t].before))
         /\ thread[t].err \in {ErrNone, ErrLine}

\* Two calls on distinct handles and connections; one of them returned
\* normally a string that holds the payload byte of the other connection.
C17_Witness ==
  \E t \in Threads, u \in Threads, c \in ConnIds, d \in ConnIds :
    /\ t # u /\ c # d
    /\ CallOn(t, c)
    /\ thread[u].h # thread[t].h /\ thread[u].h # 0
    /\ ConnOf(thread[u].h) = d
    /\ thread[t].err = ErrNone
    /\ \E i \in 1..Len(thread[t].str) : thread[t].str[i] = Letter(d)

\* C20: in every interleaving the consuming read of read_line returns the
\* number of bytes its scan counted, which is at least 2, so the length of
\* the string it builds, that number less 2, is never negative.
C20_ConsumeMatchesScan ==
  \A t \in Threads :
    /\ thread[t].pc = "return"
         => /\ thread[t].read_length = thread[t].p
            /\ thread[t].p >= 2
    /\ thread[t].pc # "undefined"
    /\ thread[t].err # Overrun

===========================================================================
